---- MODULE Spec2Model ----
(***************************************************************************)
(* testinfra block device module (testinfra/modules/blockdevice.py).       *)
(*                                                                         *)
(* One device handle (LinuxBlockDevice) and the host it inspects.  Texts   *)
(* that the code parses (the output of blockdev --report, the kernel       *)
(* release) are sequences of one-character strings, so that splitlines(),  *)
(* split(), int() and the release regular expression are computed as       *)
(* Python computes them.  Texts that the code only stores, tests for       *)
(* emptiness or formats into a message are plain strings.                  *)
(***************************************************************************)
EXTENDS Integers, Sequences, FiniteSets, TLC

VARIABLES env, cache, last, fetches

vars == <<env, cache, last, fetches>>

\* Number of times the body of _data may run on the handle: a body that
\* raised stored nothing, so a later read runs it again.
MaxFetches == 2

-----------------------------------------------------------------------------
(* Python values and outcomes *)

PyNone == "None"

\* A local variable of a function body: <<>> while nothing was assigned to
\* it, <<v>> once v was.
Unbound == <<>>

Bound(v) == <<v>>

Return(v) == [kind |-> "return", value |-> v]

Raise(exc, fmt, arg) == [kind |-> "raise", exc |-> exc, fmt |-> fmt, arg |-> arg]

-----------------------------------------------------------------------------
(* Text functions of Python *)

\* The control characters without an escape, written as themselves: vertical
\* tab (0x0b) and the file, group, record and unit separators (0x1c..0x1f).
VT == ""

FS == ""

GS == ""

RS == ""

US == ""

\* The ASCII characters str.split() separates at.  The characters beyond
\* ASCII that Python counts as whitespace cannot be held in a string here.
Whitespace == {" ", "\t", "\n", "\r", "\f", VT, FS, GS, RS, US}

\* The ASCII characters str.splitlines() ends a line at; a carriage return
\* and the line feed after it end one line together.
LineBreaks == {"\n", "\r", "\f", VT, FS, GS, RS}

Digits == {"0", "1", "2", "3", "4", "5", "6", "7", "8", "9"}

DigitValue(c) ==
    CASE c = "0" -> 0 [] c = "1" -> 1 [] c = "2" -> 2 [] c = "3" -> 3
      [] c = "4" -> 4 [] c = "5" -> 5 [] c = "6" -> 6 [] c = "7" -> 7
      [] c = "8" -> 8 [] c = "9" -> 9

\* The k-th smallest member of a set of positions.
kth(S, k) == CHOOSE i \in S : Cardinality({j \in S : j < i}) = k - 1

\* The positions at which a line break starts; the line feed of a
\* carriage return and line feed pair starts none.
breaks(s) ==
    {i \in DOMAIN s : s[i] \in LineBreaks /\ ~(i > 1 /\ s[i] = "\n" /\ s[i - 1] = "\r")}

\* The positions at which a line starts: the first character, and every
\* character that follows a whole line break.
line_starts(s) ==
    {i \in DOMAIN s :
        i = 1 \/ (s[i - 1] \in LineBreaks /\ ~(s[i - 1] = "\r" /\ s[i] = "\n"))}

\* The position before the first line break at or after position i, or the
\* last position of the text.
line_end(s, i) ==
    IF \E j \in breaks(s) : j >= i
    THEN (CHOOSE j \in breaks(s) : j >= i /\ \A k \in breaks(s) : k >= i => j <= k) - 1
    ELSE Len(s)

\* str.splitlines(): the lines of a text, without the line breaks; a final
\* line break opens no further line.
splitlines(s) ==
    [k \in 1..Cardinality(line_starts(s)) |->
        SubSeq(s, kth(line_starts(s), k), line_end(s, kth(line_starts(s), k)))]

\* The positions at which a run of non-whitespace starts, and ends.
word_starts(s) ==
    {i \in DOMAIN s : s[i] \notin Whitespace /\ (i = 1 \/ s[i - 1] \in Whitespace)}

word_ends(s) ==
    {i \in DOMAIN s : s[i] \notin Whitespace /\ (i = Len(s) \/ s[i + 1] \in Whitespace)}

\* str.split() without separator: the maximal runs of non-whitespace.
split(s) ==
    [k \in 1..Cardinality(word_starts(s)) |->
        SubSeq(s, kth(word_starts(s), k), kth(word_ends(s), k))]

RECURSIVE digits_value(_, _)
\* The value of the digits of a text, the underscores between them skipped.
digits_value(s, acc) ==
    IF s = <<>> THEN acc
    ELSE IF Head(s) = "_" THEN digits_value(Tail(s), acc)
    ELSE digits_value(Tail(s), 10 * acc + DigitValue(Head(s)))

\* The ASCII characters int() skips at the ends of a text: tab, line feed,
\* vertical tab, form feed, carriage return and space, and not the four
\* separators that str.split() also separates at.
IntWhitespace == {" ", "\t", "\n", "\r", "\f", VT}

\* The positions of a text that hold none of them.
nonspace(s) == {i \in DOMAIN s : s[i] \notin IntWhitespace}

\* The text as int() reads it: without the whitespace at its ends.
strip(s) ==
    IF nonspace(s) = {} THEN <<>>
    ELSE SubSeq(s, CHOOSE i \in nonspace(s) : \A j \in nonspace(s) : i <= j,
                   CHOOSE i \in nonspace(s) : \A j \in nonspace(s) : j <= i)

int_body(tok) == IF tok # <<>> /\ Head(tok) \in {"+", "-"} THEN Tail(tok) ELSE tok

\* The characters int() scans after the sign: the longest prefix of digits
\* and underscores.
int_run(body) ==
    IF \A i \in DOMAIN body : body[i] \in Digits \cup {"_"} THEN body
    ELSE SubSeq(body, 1,
                (CHOOSE i \in DOMAIN body :
                    /\ body[i] \notin Digits \cup {"_"}
                    /\ \A j \in 1..(i - 1) : body[j] \in Digits \cup {"_"}) - 1)

\* Decimal digits, with single underscores between digits only.
well_grouped(run) ==
    /\ run # <<>>
    /\ \A i \in DOMAIN run :
         \/ run[i] \in Digits
         \/ /\ 1 < i /\ i < Len(run)
            /\ run[i - 1] \in Digits /\ run[i + 1] \in Digits

digit_count(run) == Cardinality({i \in DOMAIN run : run[i] \in Digits})

\* sys.int_info.default_max_str_digits: the number of digits int() converts.
MaxStrDigits == 4300

invalid_literal(tok) ==
    Raise("ValueError", "invalid literal for int() with base 10: {}", tok)

exceeds_limit(digits) ==
    Raise("ValueError",
          "Exceeds the limit (4300 digits) for integer string conversion: value has {} digits; use sys.set_int_max_str_digits() to increase the limit",
          digits)

\* What int(tok) raises, as <<the exception>>, or <<>> when it converts the
\* text: the scanned characters are checked first, then the number of
\* digits, then that nothing follows them.
int_refusal_of(tok, body, run) ==
    IF ~well_grouped(run) THEN <<invalid_literal(tok)>>
    ELSE IF digit_count(run) > MaxStrDigits THEN <<exceeds_limit(digit_count(run))>>
    ELSE IF run # body THEN <<invalid_literal(tok)>>
    ELSE <<>>

int_refusal(tok) ==
    int_refusal_of(tok, int_body(strip(tok)), int_run(int_body(strip(tok))))

\* Whether int(tok) converts the text: an optional sign and decimal digits,
\* which single underscores may group.
int_accepts(tok) == int_refusal(tok) = <<>>

\* int(tok) of a text it converts.
int(tok) ==
    IF Head(strip(tok)) = "-" THEN 0 - digits_value(int_body(strip(tok)), 0)
    ELSE digits_value(int_body(strip(tok)), 0)

\* The longest prefix of decimal digits: what \d+ matches, when not empty.
leading_digits(s) ==
    IF \A i \in DOMAIN s : s[i] \in Digits THEN s
    ELSE SubSeq(s, 1,
                (CHOOSE i \in DOMAIN s :
                    /\ s[i] \notin Digits
                    /\ \A j \in 1..(i - 1) : s[j] \in Digits) - 1)

drop(s, n) == SubSeq(s, n + 1, Len(s))

\* Whether the text starts with a dot.
starts_with_dot(s) == s # <<>> /\ Head(s) = "."

\* The rest of the pattern after the first group: \.(\d+)\.
match_minor(major, rest, minor) ==
    IF starts_with_dot(rest) /\ minor # <<>> /\ starts_with_dot(drop(rest, 1 + Len(minor)))
    THEN << <<major, minor>> >>
    ELSE <<>>

match_major(kernel, major) ==
    IF major = <<>> THEN <<>>
    ELSE match_minor(major, drop(kernel, Len(major)),
                     leading_digits(drop(kernel, Len(major) + 1)))

\* re.findall(r'^(\d+)\.(\d+)\.', kernel): one pair of groups, or nothing.
findall_release(kernel) == match_major(kernel, leading_digits(kernel))

-----------------------------------------------------------------------------
(* BlockDevice: the accessors, as functions of the snapshot _data *)

\* "rw" and "ro" as the mode column holds them.
mode_rw == <<"r", "w">>

mode_ro == <<"r", "o">>

is_partition(data) == Return(data["start_sector"] > 0)

size(data) == Return(data["size"])

sector_size(data) == Return(data["sector_size"])

block_size(data) == Return(data["block_size"])

start_sector(data) == Return(data["sector_size"])

is_writable(data) ==
    LET mode == data["rw_mode"]
    IN  IF mode = mode_rw THEN Return(TRUE)
        ELSE IF mode = mode_ro THEN Return(FALSE)
        ELSE Raise("ValueError", "Unexpected value for rw: {}", mode)

ra(data) == Return(data["read_ahead"])

zoned(data) == Return("none" # data["zoned_type"])

zoned_type(data) == Return(data["zoned_type"])

\* The names get_zoned_param looks up in the snapshot.
zoned_param_names ==
    {"type", "chunk_sectors", "nr_zones", "zone_append_max_bytes",
     "max_open_zones", "max_active_zones"}

\* "zoned_%s" % param_name
zoned_key(param_name) ==
    CASE param_name = "type" -> "zoned_type"
      [] param_name = "chunk_sectors" -> "zoned_chunk_sectors"
      [] param_name = "nr_zones" -> "zoned_nr_zones"
      [] param_name = "zone_append_max_bytes" -> "zoned_zone_append_max_bytes"
      [] param_name = "max_open_zones" -> "zoned_max_open_zones"
      [] param_name = "max_active_zones" -> "zoned_max_active_zones"
      [] OTHER -> "zoned_?"

\* self._data[key]: a key the dict does not hold raises KeyError.
getitem(data, key) ==
    IF key \in DOMAIN data THEN Return(data[key]) ELSE Raise("KeyError", "{}", key)

\* The branch of get_zoned_param that reads the snapshot.
get_zoned_param(data, param_name) == getitem(data, zoned_key(param_name))

\* The comparison kernel_version_ge returns.
version_ge(major, minor, major_wanted, minor_wanted) ==
    (major >= major_wanted) /\ (minor >= minor_wanted)

\* (major, minor) = found[0], then the comparison of the two as integers:
\* int(minor) is evaluated only when the comparison of the major holds.
first_match_ge(found, major_wanted, minor_wanted) ==
    IF found = <<>>
    THEN Raise("IndexError", "list index out of range", PyNone)
    ELSE IF ~int_accepts(found[1][1]) THEN int_refusal(found[1][1])[1]
    ELSE IF int(found[1][1]) < major_wanted THEN Return(FALSE)
    ELSE IF ~int_accepts(found[1][2]) THEN int_refusal(found[1][2])[1]
    ELSE Return(version_ge(int(found[1][1]), int(found[1][2]),
                           major_wanted, minor_wanted))

\* kernel_version_ge on a host whose kernel.osrelease is kernel.
kernel_version_ge(kernel, major_wanted, minor_wanted) ==
    first_match_ge(findall_release(kernel), major_wanted, minor_wanted)

-----------------------------------------------------------------------------
(* LinuxBlockDevice._data: the fetch *)

header ==
    << <<"R", "O">>, <<"R", "A">>, <<"S", "S", "Z">>, <<"B", "S", "Z">>,
       <<"S", "t", "a", "r", "t", "S", "e", "c">>, <<"S", "i", "z", "e">>,
       <<"D", "e", "v", "i", "c", "e">> >>

\* The calls a fetch makes on the host, as it logs them.
run_blockdev(device) == [call |-> "run", command |-> "blockdev  --report %s", arg |-> device]

cat(attr) == [call |-> "check_output", command |-> "cat %s", arg |-> attr]

sysctl_osrelease == [call |-> "sysctl", command |-> "kernel.osrelease", arg |-> ""]

\* The test of the exit status alone.
blockdev_failed_rc_only(blockdev) == blockdev.rc # 0

\* if blockdev.rc != 0 or blockdev.stderr
blockdev_failed(blockdev) == blockdev.rc # 0 \/ blockdev.stderr # ""

\* variable = self.check_output("cat %s", path) inside try ... except
\* AttributeError: the variable after the statement, given the variable
\* before it.  The text read is assigned; an exception assigns nothing.
try_check_output(e, attr, before) ==
    IF e.sysfs[attr].ok THEN Bound(e.sysfs[attr].out) ELSE before

\* if zoned_type
probes_wanted(zt) == zt # ""

\* The probes after chunk_sectors, given what the three calls of
\* kernel_version_ge give: (4, 20), (5, 8) and (5, 9).  The first call to
\* raise ends the fetch.
probe_gated(e, zt, ge_4_20, ge_5_8, ge_5_9) ==
    IF ge_4_20.kind = "raise"
    THEN [locals |-> <<>>,
          issued |-> <<cat("zoned"), cat("chunk_sectors"), sysctl_osrelease>>,
          exc |-> <<ge_4_20>>]
    ELSE
    [locals |->
        [zoned_type |-> Bound(zt),
         zoned_chunk_sectors |-> try_check_output(e, "chunk_sectors", Bound("none")),
         zoned_nr_zones |->
            IF ge_4_20.value THEN try_check_output(e, "nr_zones", Bound("none"))
            ELSE Bound("none"),
         zoned_zone_append_max_bytes |->
            IF ge_5_8.value
            THEN try_check_output(e, "zone_append_max_bytes", Bound("none"))
            ELSE Bound("none"),
         zoned_max_open_zones |->
            IF ge_5_9.value THEN try_check_output(e, "max_open_zones", Unbound)
            ELSE Unbound,
         zoned_max_active_zones |->
            IF ge_5_9.value THEN try_check_output(e, "max_active_zones", Unbound)
            ELSE Unbound],
     issued |->
        <<cat("zoned"), cat("chunk_sectors"), sysctl_osrelease>>
        \o (IF ge_4_20.value THEN <<cat("nr_zones")>> ELSE <<>>)
        \o <<sysctl_osrelease>>
        \o (IF ge_5_8.value THEN <<cat("zone_append_max_bytes")>> ELSE <<>>)
        \o <<sysctl_osrelease>>
        \o (IF ge_5_9.value THEN <<cat("max_open_zones"), cat("max_active_zones")>>
            ELSE <<>>),
     exc |-> <<>>]

\* The probes once the zoned attribute was tried and left zoned_type = zt.
probe_zoned(e, zt) ==
    IF ~probes_wanted(zt)
    THEN [locals |-> [zoned_type |-> Bound(zt),
                      zoned_chunk_sectors |-> Bound("none"),
                      zoned_nr_zones |-> Bound("none"),
                      zoned_zone_append_max_bytes |-> Bound("none"),
                      zoned_max_open_zones |-> Unbound,
                      zoned_max_active_zones |-> Unbound],
          issued |-> <<cat("zoned")>>,
          exc |-> <<>>]
    ELSE probe_gated(e, zt,
                     kernel_version_ge(e.osrelease, 4, 20),
                     kernel_version_ge(e.osrelease, 5, 8),
                     kernel_version_ge(e.osrelease, 5, 9))

\* The probes of the zoned attributes: the locals they leave, the calls
\* they issue on the host, in order, and the exception that ends them, if any.
probe(e) == probe_zoned(e, try_check_output(e, "zoned", Bound("none"))[1])

\* The first of the six columns that the dict display cannot convert: 0 when
\* there is none.  Column 1 is kept as a string, columns 2..6 go through int().
bad_columns(fields) ==
    {i \in 1..6 : Len(fields) < i \/ (i > 1 /\ ~int_accepts(fields[i]))}

least(S) == IF S = {} THEN 0 ELSE CHOOSE i \in S : \A j \in S : i <= j

first_bad_column(fields) == least(bad_columns(fields))

\* The dict display that _data returns, evaluated in order.
assemble_from(fields, locals, b) ==
        IF b # 0 /\ Len(fields) < b
        THEN Raise("IndexError", "list index out of range", PyNone)
        ELSE IF b # 0
        THEN int_refusal(fields[b])[1]
        ELSE IF locals.zoned_max_open_zones = Unbound
        THEN Raise("UnboundLocalError", "{}", "zoned_max_open_zones")
        ELSE IF locals.zoned_max_active_zones = Unbound
        THEN Raise("UnboundLocalError", "{}", "zoned_max_active_zones")
        ELSE Return([rw_mode |-> fields[1],
                     read_ahead |-> int(fields[2]),
                     sector_size |-> int(fields[3]),
                     block_size |-> int(fields[4]),
                     start_sector |-> int(fields[5]),
                     size |-> int(fields[6]),
                     zoned_type |-> locals.zoned_type[1],
                     zoned_chunk_sectors |-> locals.zoned_chunk_sectors[1],
                     zoned_nr_zones |-> locals.zoned_nr_zones[1],
                     zone_append_max_bytes |-> locals.zoned_zone_append_max_bytes[1],
                     max_open_zones |-> locals.zoned_max_open_zones[1],
                     max_actives_zones |-> locals.zoned_max_active_zones[1]])

assemble(fields, locals) == assemble_from(fields, locals, first_bad_column(fields))

\* The end of _data: the probes ran (p), the dict display is evaluated.
finish(fields, p) ==
    [outcome |-> IF p.exc # <<>> THEN p.exc[1] ELSE assemble(fields, p.locals),
     issued |-> p.issued]

\* _data once the command succeeded and printed output (its lines).
parse(e, output) ==
    IF Len(output) < 2
    THEN [outcome |-> Raise("RuntimeError", "No data from {}", e.device), issued |-> <<>>]
    ELSE IF split(output[1]) # header
    THEN [outcome |-> Raise("RuntimeError", "Unknown output of blockdev: {}", output[1]),
          issued |-> <<>>]
    ELSE finish(split(output[2]), probe(e))

\* The body of LinuxBlockDevice._data after self.run(command, self.device)
\* gave blockdev: what it returns or raises, and the further calls it issued.
after_run(e, blockdev) ==
    IF blockdev_failed(blockdev)
    THEN [outcome |-> Raise("RuntimeError", "Failed to gather data: {}", blockdev.stderr),
          issued |-> <<>>]
    ELSE parse(e, splitlines(blockdev.stdout))

\* r with the call of blockdev put before the calls it issued.
ran_first(e, r) == [outcome |-> r.outcome, issued |-> <<run_blockdev(e.device)>> \o r.issued]

\* The body of LinuxBlockDevice._data: what it returns or raises, and the
\* calls it issued on the host.
fetch(e) == ran_first(e, after_run(e, e.blockdev))

-----------------------------------------------------------------------------
(* The lookup of _data on the handle *)

\* The value the body returned is stored on the instance; an exception
\* stores nothing.
store(c, f) ==
    [outcome |-> f.outcome, issued |-> f.issued, fetched |-> TRUE,
     cache |-> IF f.outcome.kind = "return" THEN <<f.outcome.value>> ELSE c]

\* testinfra.utils.cached_property: the call of the body stores the value it
\* returns on the instance; later lookups find the stored value.  A body
\* that raises stores nothing.  c is <<>> or <<the stored value>>.
cached_property(c, e) ==
    IF c # <<>>
    THEN [outcome |-> Return(c[1]), issued |-> <<>>, fetched |-> FALSE, cache |-> c]
    ELSE store(c, fetch(e))

\* @cached_property def _data(self)
LinuxBlockDevice_data(c, e) == cached_property(c, e)

-----------------------------------------------------------------------------
(* The hosts and devices the handle is tried on *)

NL == <<"\n">>

CRLF == <<"\r", "\n">>

FF == <<"\f">>

HeaderLine ==
    <<"R", "O", " ", "R", "A", " ", "S", "S", "Z", " ", "B", "S", "Z", " ", "S", "t", "a", "r", "t", "S", "e", "c", " ", "S", "i", "z", "e", " ", "D", "e", "v", "i", "c", "e">>

HeaderLineAligned ==
    <<"R", "O", " ", " ", " ", " ", "R", "A", " ", " ", " ", "S", "S", "Z", " ", " ", " ", "B", "S", "Z", " ", " ", " ", "S", "t", "a", "r", "t", "S", "e", "c", " ", " ", "S", "i", "z", "e", " ", " ", " ", "D", "e", "v", "i", "c", "e">>

\* The header with unit separators between the columns.
HeaderLineSeparated ==
    <<"R", "O", US, "R", "A", US, "S", "S", "Z", US, "B", "S", "Z", US, "S", "t", "a", "r", "t", "S", "e", "c", US, "S", "i", "z", "e", US, "D", "e", "v", "i", "c", "e">>

HeaderLineOther ==
    <<"R", "O", " ", "R", "A", " ", "S", "S", "Z", " ", "B", "S", "Z", " ", "S", "t", "a", "r", "t", " ", "S", "i", "z", "e", " ", "D", "e", "v", "i", "c", "e">>

PartitionLine ==
    <<"r", "w", " ", "2", "5", "6", " ", "5", "1", "2", " ", "4", "0", "9", "6", " ", "2", "0", "4", "8", " ", "5", "1", "2", "1", "1", " ", "/", "d", "e", "v", "/", "s", "d", "a", "1">>

DiskLine ==
    <<"r", "o", " ", " ", " ", "1", "2", "8", " ", " ", " ", "5", "1", "2", " ", " ", "1", "0", "2", "4", " ", " ", " ", " ", " ", "0", " ", " ", " ", "9", "7", "6", " ", "/", "d", "e", "v", "/", "s", "d", "a">>

ShortLine ==
    <<"r", "w", " ", "2", "5", "6", " ", "5", "1", "2">>

UnexpectedModeLine ==
    <<"-", "-", " ", "2", "5", "6", " ", "5", "1", "2", " ", "4", "0", "9", "6", " ", "0", " ", "9", "7", "6", " ", "/", "d", "e", "v", "/", "l", "o", "o", "p", "1">>

NonIntegerLine ==
    <<"r", "w", " ", "2", "5", "6", " ", "5", "1", "2", " ", "4", "0", "9", "6", " ", "-", " ", "5", "1", "2", "1", "1", " ", "/", "d", "e", "v", "/", "s", "d", "a", "1">>

GroupedDigitsLine ==
    <<"r", "w", " ", "2", "5", "6", " ", "5", "1", "2", " ", "4", "_", "0", "9", "6", " ", "2", "_", "0", "4", "8", " ", "5", "1", "_", "2", "1", "1", " ", "/", "d", "e", "v", "/", "s", "d", "a", "1">>

Release_5_15 ==
    <<"5", ".", "1", "5", ".", "0", "-", "5", "2", "-", "g", "e", "n", "e", "r", "i", "c">>

Release_4_18 ==
    <<"4", ".", "1", "8", ".", "0", "-", "1", "-", "g", "e", "n", "e", "r", "i", "c">>

Release_6_1 ==
    <<"6", ".", "1", ".", "0", "-", "1", "3", "-", "a", "m", "d", "6", "4">>

Release_5_0 ==
    <<"5", ".", "0", ".", "0", "-", "2", "3", "-", "g", "e", "n", "e", "r", "i", "c">>

Release_4_20 ==
    <<"4", ".", "2", "0", ".", "3">>

Release_NoPatch ==
    <<"5", ".", "1", "5">>

Release_Malformed ==
    <<"g", "e", "n", "e", "r", "i", "c">>

\* Outputs that pass the checks on the line count and the header.
StdoutsReported ==
    { HeaderLine \o NL \o PartitionLine \o NL,
      HeaderLineAligned \o NL \o DiskLine \o NL,
      HeaderLine \o NL \o UnexpectedModeLine \o NL,
      HeaderLine \o NL \o ShortLine \o NL,
      HeaderLine \o NL \o NonIntegerLine \o NL,
      HeaderLine \o CRLF \o PartitionLine \o CRLF,
      HeaderLine \o FF \o DiskLine,
      HeaderLineSeparated \o <<VT>> \o PartitionLine \o <<RS>>,
      HeaderLine \o NL \o GroupedDigitsLine \o NL }

\* Outputs with fewer than two lines or another header.
StdoutsRejected ==
    { <<>>,
      HeaderLine \o NL,
      HeaderLineOther \o NL \o PartitionLine \o NL,
      HeaderLineOther \o NL \o ShortLine \o NL,
      HeaderLine \o <<" ">> \o PartitionLine \o NL }

Stdouts == StdoutsReported \cup StdoutsRejected

Stderrs == {"", "blockdev: cannot open device"}

ExitStatuses == {0, 1}

Blockdevs == [rc : ExitStatuses, stdout : Stdouts, stderr : Stderrs]

Releases ==
    { Release_5_15, Release_4_18, Release_6_1, Release_5_0, Release_4_20,
      Release_NoPatch, Release_Malformed }

Devices == {"/dev/sda1", "/dev/nvme0n1"}

\* What check_output gives for an attribute file: the text cat prints, or
\* the exception that the try statements of _data catch.
Unreadable == [ok |-> FALSE, out |-> ""]

Readable(out) == [ok |-> TRUE, out |-> out]

ZonedOutcomes == {Unreadable, Readable("none"), Readable("host-managed"), Readable("")}

Attrs ==
    {"zoned", "chunk_sectors", "nr_zones", "zone_append_max_bytes",
     "max_open_zones", "max_active_zones"}

ParamAttrs == Attrs \ {"zoned"}

ParamText(attr) ==
    CASE attr = "chunk_sectors" -> "524288"
      [] attr = "nr_zones" -> "55880"
      [] attr = "zone_append_max_bytes" -> "1048576"
      [] attr = "max_open_zones" -> "128"
      [] attr = "max_active_zones" -> "256"

\* The sets of parameter files that cannot be read: none, any single one, all.
UnreadableSets == {{}, ParamAttrs} \cup {{a} : a \in ParamAttrs}

sysfs_of(z, unreadable) ==
    [a \in Attrs |-> IF a = "zoned" THEN z
                     ELSE IF a \in unreadable THEN Unreadable
                     ELSE Readable(ParamText(a))]

Sysfs == {sysfs_of(z, u) : z \in ZonedOutcomes, u \in UnreadableSets}

AllReadable == sysfs_of(Readable("host-managed"), {})

\* Hosts on which blockdev reports a partition: every release, every
\* outcome of the zoned attribute and the sets of unreadable files above.
ProbingEnvs ==
    [device : Devices,
     blockdev : [rc : {0}, stdout : {HeaderLine \o NL \o PartitionLine \o NL}, stderr : {""}],
     osrelease : Releases \ {Release_NoPatch},
     sysfs : Sysfs]

\* Hosts on which blockdev reports other data lines.
ParsingEnvs ==
    [device : Devices,
     blockdev : [rc : {0}, stdout : StdoutsReported, stderr : {""}],
     osrelease : {Release_5_15, Release_4_18},
     sysfs : {AllReadable, sysfs_of(Unreadable, ParamAttrs)}]

\* Hosts on which blockdev fails, prints to stderr or prints another table.
RejectingEnvs ==
    [device : Devices,
     blockdev : {b \in Blockdevs : b.rc # 0 \/ b.stderr # "" \/ b.stdout \in StdoutsRejected},
     osrelease : {Release_5_15, Release_NoPatch},
     sysfs : {AllReadable}]

Envs == ProbingEnvs \cup ParsingEnvs \cup RejectingEnvs

\* The arguments kernel_version_ge and get_zoned_param are called with.
WantedVersions == {<<5, 15>>, <<4, 20>>}

ParamNames == zoned_param_names \cup {"bogus"}

-----------------------------------------------------------------------------
(* The handle *)

Init ==
    /\ env \in Envs
    /\ cache = <<>>
    /\ last = [op |-> "init", arg |-> <<>>, outcome |-> Return(PyNone),
               issued |-> <<>>, fetched |-> FALSE, snapshot |-> <<>>]
    /\ fetches = <<>>

\* A read of self._data runs the body unless a value is stored.
CanLookup == cache = <<>> => Len(fetches) < MaxFetches

\* The handle after a property or method looked _data up (d); result is
\* what it makes of the snapshot, when there is one.
Observe(op, arg, d, result) ==
    /\ cache' = d.cache
    /\ fetches' = IF d.fetched THEN Append(fetches, d.outcome.kind) ELSE fetches
    /\ last' = [op |-> op, arg |-> arg,
                outcome |-> IF d.outcome.kind = "raise" THEN d.outcome ELSE result,
                issued |-> d.issued, fetched |-> d.fetched,
                snapshot |-> IF d.outcome.kind = "raise" THEN <<>>
                             ELSE <<d.outcome.value>>]
    /\ UNCHANGED env

\* self._data, as the accessors below read it.
Data == LinuxBlockDevice_data(cache, env)

Read_is_partition ==
    /\ CanLookup
    /\ Observe("is_partition", <<>>, Data, is_partition(Data.outcome.value))

Read_size ==
    /\ CanLookup
    /\ Observe("size", <<>>, Data, size(Data.outcome.value))

Read_sector_size ==
    /\ CanLookup
    /\ Observe("sector_size", <<>>, Data, sector_size(Data.outcome.value))

Read_block_size ==
    /\ CanLookup
    /\ Observe("block_size", <<>>, Data, block_size(Data.outcome.value))

Read_start_sector ==
    /\ CanLookup
    /\ Observe("start_sector", <<>>, Data, start_sector(Data.outcome.value))

Read_is_writable ==
    /\ CanLookup
    /\ Observe("is_writable", <<>>, Data, is_writable(Data.outcome.value))

Read_ra ==
    /\ CanLookup
    /\ Observe("ra", <<>>, Data, ra(Data.outcome.value))

Read_zoned ==
    /\ CanLookup
    /\ Observe("zoned", <<>>, Data, zoned(Data.outcome.value))

Read_zoned_type ==
    /\ CanLookup
    /\ Observe("zoned_type", <<>>, Data, zoned_type(Data.outcome.value))

\* get_zoned_param(param_name), a listed name
Call_get_zoned_param ==
    \E name \in ParamNames :
        /\ name \in zoned_param_names
        /\ CanLookup
        /\ Observe("get_zoned_param", <<name>>, Data,
                   get_zoned_param(Data.outcome.value, name))

\* get_zoned_param(param_name), any other name: None, and _data is not read
Call_get_zoned_param_other ==
    \E name \in ParamNames :
        /\ name \notin zoned_param_names
        /\ last' = [op |-> "get_zoned_param", arg |-> <<name>>, outcome |-> Return(PyNone),
                    issued |-> <<>>, fetched |-> FALSE, snapshot |-> <<>>]
        /\ UNCHANGED <<env, cache, fetches>>

Call_kernel_version_ge ==
    \E w \in WantedVersions :
        /\ last' = [op |-> "kernel_version_ge", arg |-> w,
                    outcome |-> kernel_version_ge(env.osrelease, w[1], w[2]),
                    issued |-> <<sysctl_osrelease>>, fetched |-> FALSE, snapshot |-> <<>>]
        /\ UNCHANGED <<env, cache, fetches>>

Next ==
    \/ Read_is_partition
    \/ Read_size
    \/ Read_sector_size
    \/ Read_block_size
    \/ Read_start_sector
    \/ Read_is_writable
    \/ Read_ra
    \/ Read_zoned
    \/ Read_zoned_type
    \/ Call_get_zoned_param
    \/ Call_get_zoned_param_other
    \/ Call_kernel_version_ge

Spec == Init /\ [][Next]_vars

-----------------------------------------------------------------------------
(* What the properties below expect of the hosts above, stated on the      *)
(* inputs themselves and not through the parser.                           *)

\* The outputs whose data line holds a mode and five integer columns, and
\* the columns each holds.
StdoutsValid ==
    { HeaderLine \o NL \o PartitionLine \o NL,
      HeaderLine \o CRLF \o PartitionLine \o CRLF,
      HeaderLineAligned \o NL \o DiskLine \o NL }

Columns(stdout) ==
    IF stdout # HeaderLineAligned \o NL \o DiskLine \o NL
    THEN [rw_mode |-> mode_rw, read_ahead |-> 256, sector_size |-> 512,
          block_size |-> 4096, start_sector |-> 2048, size |-> 51211]
    ELSE [rw_mode |-> mode_ro, read_ahead |-> 128, sector_size |-> 512,
          block_size |-> 1024, start_sector |-> 0, size |-> 976]

BaseFields == {"rw_mode", "read_ahead", "sector_size", "block_size", "start_sector", "size"}

\* The releases with a MAJOR.MINOR. prefix, and the version each names.
ReleasesWellFormed ==
    {Release_5_15, Release_4_18, Release_6_1, Release_5_0, Release_4_20}

HostVersion(release) ==
    CASE release = Release_5_15 -> <<5, 15>>
      [] release = Release_4_18 -> <<4, 18>>
      [] release = Release_6_1 -> <<6, 1>>
      [] release = Release_5_0 -> <<5, 0>>
      [] release = Release_4_20 -> <<4, 20>>

\* Versions compared by major, then by minor.
AtLeast(v, major, minor) == v[1] > major \/ (v[1] = major /\ v[2] >= minor)

\* The snapshot field that holds what an attribute file gave.
FieldOf(attr) ==
    CASE attr = "zoned" -> "zoned_type"
      [] attr = "chunk_sectors" -> "zoned_chunk_sectors"
      [] attr = "nr_zones" -> "zoned_nr_zones"
      [] attr = "zone_append_max_bytes" -> "zone_append_max_bytes"
      [] attr = "max_open_zones" -> "max_open_zones"
      [] attr = "max_active_zones" -> "max_actives_zones"

\* The attribute file behind a name of get_zoned_param.
AttrOf(param_name) == IF param_name = "type" THEN "zoned" ELSE param_name

\* The command succeeded and printed the report of a device.
PrimaryValid ==
    /\ env.blockdev.rc = 0
    /\ env.blockdev.stderr = ""
    /\ env.blockdev.stdout \in StdoutsValid

\* The command succeeded and its output passed the header check.
PrimaryAccepted ==
    /\ env.blockdev.rc = 0
    /\ env.blockdev.stderr = ""
    /\ env.blockdev.stdout \in StdoutsReported

Issued(call) == \E i \in DOMAIN last.issued : last.issued[i] = call

RaisedRuntimeError ==
    /\ last.outcome.kind = "raise"
    /\ last.outcome.exc = "RuntimeError"

-----------------------------------------------------------------------------
(* Properties *)

\* C1: when blockdev succeeds with the expected header and a data line of a
\* mode and five integers, the release is well formed and every attribute
\* file can be read, the fetch returns a snapshot whose base fields are the
\* columns of the data line, and is_partition is start-sector > 0.
C1_SnapshotHoldsColumns ==
    (/\ last.fetched
     /\ PrimaryValid
     /\ env.osrelease \in ReleasesWellFormed
     /\ \A a \in Attrs : env.sysfs[a].ok)
    => /\ last.snapshot # <<>>
       /\ \A f \in BaseFields : last.snapshot[1][f] = Columns(env.blockdev.stdout)[f]
       /\ last.op = "is_partition"
            => last.outcome = Return(Columns(env.blockdev.stdout).start_sector > 0)

\* C2: kernel_version_ge(major, minor) is true iff the host version is at
\* least (major, minor), compared by major and then by minor, and fails on a
\* release without the MAJOR.MINOR. prefix.
C2_KernelVersionCompared ==
    last.op = "kernel_version_ge"
    => IF env.osrelease \in ReleasesWellFormed
       THEN /\ last.outcome.kind = "return"
            /\ last.outcome.value
                 = AtLeast(HostVersion(env.osrelease), last.arg[1], last.arg[2])
       ELSE last.outcome.kind = "raise"

\* C3: once the command succeeded with a valid header and data line, no
\* outcome of the probes is fatal, on any kernel version: the fetch returns
\* a snapshot in which the field of every attribute that could not be read
\* is "none".
C3_ProbesNeverFatal ==
    (last.fetched /\ PrimaryValid /\ env.osrelease \in ReleasesWellFormed)
    => /\ last.snapshot # <<>>
       /\ \A a \in Attrs : ~env.sysfs[a].ok => last.snapshot[1][FieldOf(a)] = "none"

\* C4: after a successful fetch get_zoned_param returns the matching field
\* of the snapshot for each of its six names, and None for any other name.
C4_ZonedParamReturned ==
    (last.op = "get_zoned_param" /\ cache # <<>>)
    => IF last.arg[1] \in zoned_param_names
       THEN /\ last.outcome.kind = "return"
            /\ last.outcome.value = cache[1][FieldOf(AttrOf(last.arg[1]))]
       ELSE last.outcome = Return(PyNone)

\* C5: size, sector_size, block_size and start_sector each return the field
\* of the snapshot of the same name.
C5_AccessorReturnsItsField ==
    (last.op \in {"size", "sector_size", "block_size", "start_sector"}
        /\ last.snapshot # <<>>)
    => last.outcome = Return(last.snapshot[1][last.op])

\* C7: a non-zero exit status or any error output fails the fetch with
\* RuntimeError carrying the error output, whatever stdout holds, and
\* fewer than two lines or another header fail it with RuntimeError too;
\* in each case blockdev is the only call issued and nothing is stored.
C7_FetchFailed ==
    last.fetched
    => /\ (env.blockdev.rc # 0 \/ env.blockdev.stderr # "")
            => /\ RaisedRuntimeError
               /\ last.outcome.fmt = "Failed to gather data: {}"
               /\ last.outcome.arg = env.blockdev.stderr
               /\ last.issued = <<run_blockdev(env.device)>>
               /\ cache = <<>>
       /\ env.blockdev.stdout \in StdoutsRejected
            => /\ RaisedRuntimeError
               /\ last.issued = <<run_blockdev(env.device)>>
               /\ cache = <<>>

C7_Witness ==
    /\ last.fetched
    /\ env.blockdev.rc = 0
    /\ env.blockdev.stderr # ""
    /\ env.blockdev.stdout \in StdoutsValid
    /\ RaisedRuntimeError
    /\ last.outcome.arg = env.blockdev.stderr

\* C8: zoned is true iff zoned_type is not "none"; and when the zoned
\* attribute file cannot be read the fetch still returns a snapshot, with
\* zoned_type "none" and zoned false.
C8_ZonedAbsent ==
    /\ (last.op = "zoned" /\ last.snapshot # <<>>)
         => last.outcome = Return(last.snapshot[1]["zoned_type"] # "none")
    /\ (/\ last.fetched
        /\ PrimaryValid
        /\ env.osrelease \in ReleasesWellFormed
        /\ ~env.sysfs["zoned"].ok)
         => /\ last.snapshot # <<>>
            /\ last.snapshot[1]["zoned_type"] = "none"
            /\ last.op = "zoned" => last.outcome = Return(FALSE)

\* C9: when the zoned attribute file cannot be read, the fetch reads no
\* other attribute file.
C9_NoProbeAfterZonedFails ==
    (last.fetched /\ PrimaryAccepted /\ ~env.sysfs["zoned"].ok)
    => \A a \in ParamAttrs : ~Issued(cat(a))

\* C10: when the zoned attribute is present, chunk_sectors is read, nr_zones
\* is read exactly on kernels >= 4.20, zone_append_max_bytes exactly on
\* kernels >= 5.8, max_open_zones and max_active_zones exactly on kernels
\* >= 5.9, versions compared by major and then by minor.
C10_ProbesGatedByVersion ==
    (/\ last.fetched
     /\ PrimaryAccepted
     /\ env.sysfs["zoned"].ok
     /\ env.sysfs["zoned"].out # ""
     /\ env.osrelease \in ReleasesWellFormed)
    => /\ Issued(cat("chunk_sectors"))
       /\ Issued(cat("nr_zones")) <=> AtLeast(HostVersion(env.osrelease), 4, 20)
       /\ Issued(cat("zone_append_max_bytes")) <=> AtLeast(HostVersion(env.osrelease), 5, 8)
       /\ Issued(cat("max_open_zones")) <=> AtLeast(HostVersion(env.osrelease), 5, 9)
       /\ Issued(cat("max_active_zones")) <=> AtLeast(HostVersion(env.osrelease), 5, 9)

====
